---- MODULE Spec2Model ----
(***************************************************************************)
(* The Bendulum library (Arduino, version 1.22): the beat timing engine of *)
(* class Bendulum: run modes, cycle counters, bias correction and running  *)
(* averages.  One action per public method; beat() is modelled whole, from *)
(* the passage time stamp to the returned duration.                        *)
(*                                                                         *)
(* Numbers.  long and unsigned long are 32 bits wide.  Time stamps are     *)
(* drawn from Times, a subset of 0 .. 2^31-1; for two such stamps the      *)
(* unsigned difference topTime - lastTime, converted to long, is their     *)
(* integer difference (negative when the clock has wrapped in between).    *)
(* The inputs are chosen so that no product leaves the 32-bit range.       *)
(***************************************************************************)
EXTENDS Integers, FiniteSets, Sequences, TLC

VARIABLES
    runMode,        \* byte runMode
    cycleCounter,   \* int cycleCounter
    tgtSettle,      \* int tgtSettle
    tgtScale,       \* int tgtScale
    tgtSmoothing,   \* int tgtSmoothing
    curSmoothing,   \* int curSmoothing
    uspb,           \* long uspb
    bias,           \* int bias
    peakScale,      \* int peakScale
    tick,           \* boolean tick
    tickAvg,        \* long tickAvg
    tockAvg,        \* long tockAvg
    tickPeriod,     \* long tickPeriod
    tockPeriod,     \* long tockPeriod
    lastTime,       \* unsigned long lastTime
    timeBeforeLast, \* unsigned long timeBeforeLast
    ret,            \* value returned by the most recent beat(), cycle() or incrBeatDuration() call
    lastOp,         \* the method that ran last, and for beat() the path it took
    everBeat,       \* history: beat() has been called at least once
    beatsInMode,    \* history: beats dispatched in SETTLING/SCALING since the mode was entered
    pairsInMode,    \* history: tock samples folded in since CALIBRATING was entered
    modeCalls,      \* history: number of setRunMode calls made so far
    kick,           \* the kick pin, and the calls the most recent beat() made from micros() on
    sense,          \* beat()'s passage detection: where it is, its locals, the readings
    hist            \* history: the samples of the calibration run; incrBeatDuration's argument
                    \* and whether it overflowed

vars == << runMode, cycleCounter, tgtSettle, tgtScale, tgtSmoothing, curSmoothing,
           uspb, bias, peakScale, tick, tickAvg, tockAvg, tickPeriod, tockPeriod,
           lastTime, timeBeforeLast, ret, lastOp, everBeat, beatsInMode, pairsInMode,
           modeCalls, kick, sense, hist >>

(***************************************************************************)
(* Run mode constants (Bendulum.h)                                         *)
(***************************************************************************)
SETTLING == 0
SCALING == 1
CALIBRATING == 2
CALFINISH == 3
RUNNING == 4

Modes == {SETTLING, SCALING, CALIBRATING, CALFINISH, RUNNING}

(***************************************************************************)
(* Constants of beat()                                                     *)
(***************************************************************************)
maxPeak == 1
HalfTenthsPerDay == 432000
TenthsPerDay == 864000
MaxBeatMicros == 5000000
InitPeakScale == 10

(***************************************************************************)
(* Bounds and input sets                                                   *)
(***************************************************************************)
\* The phase lengths tgtSettle, tgtScale and tgtSmoothing are parameters of
\* the engine, the constructor's 32, 128 and 2048 being one instance: beat()
\* compares its counters with them and does nothing else with them.
MaxTgt == 2

Targets == 1 .. MaxTgt

\* <<tgtSettle, tgtScale, tgtSmoothing>>: each phase length in turn runs over
\* Targets while the other two are 1
TargetChoices ==
    { <<n, 1, 1>> : n \in Targets } \cup { <<1, n, 1>> : n \in Targets }
        \cup { <<1, 1, n>> : n \in Targets }

\* micros() at a passage.  0 is the stamp of the instant the clock wraps;
\* 1000000 -> 2000000 is a plausible beat, anything -> 8000000 is longer
\* than 5 s, and a smaller stamp after a larger one is a wrapped clock.
Times == {0, 1000000, 2000000}

\* The stamps of the specification with the setters
MainTimes == {1000000, 2000000}

\* The sketch calls setRunMode at most this many times
MaxModeCalls == 2

\* Arguments of setBias (tenths of a second per day)
Biases == {10}

\* Scaled peak reading left in pastCoil by the passage detection loop
PastCoils == {1, 2}

\* The stamps of the specification of implausibly long beats: from any
\* stamp to 8000000 is more than 5 s
LongTimes == {1000000, 2000000, 8000000}

\* The inputs of the bias correction: the arguments of setBias, the raw
\* intervals topTime - lastTime, and the stamp of the passage before
BiasInputs == {-10, -1, 0, 1, 10}

RawIntervals == {1, 400000, 1000000, 1234567, 5000000}

BaseStamps == {4000}

\* uspb is not initialised by the constructor
UninitLongs == {0, -1}

\* Arguments of setBeatDuration (microseconds)
KnownDurations == {1000000}

\* Arguments of setPeakScale
PeakScales == {20}

\* Arguments of setRunMode: the five modes and a byte that is none of them
ModeArgs == Modes \cup {5}

(***************************************************************************)
(* C arithmetic                                                            *)
(***************************************************************************)
Abs(x) == IF x < 0 THEN -x ELSE x

\* a / b of C: the quotient truncated toward zero
CDiv(a, b) == IF (a >= 0) = (b > 0) THEN Abs(a) \div Abs(b) ELSE -(Abs(a) \div Abs(b))

(***************************************************************************)
(* The object's fields as one record, so that a method is a function from  *)
(* the fields before the call to the fields after it                       *)
(***************************************************************************)
Fields ==
    [ runMode |-> runMode, cycleCounter |-> cycleCounter, tgtSettle |-> tgtSettle,
      tgtScale |-> tgtScale, tgtSmoothing |-> tgtSmoothing, curSmoothing |-> curSmoothing,
      uspb |-> uspb, bias |-> bias, peakScale |-> peakScale, tick |-> tick,
      tickAvg |-> tickAvg, tockAvg |-> tockAvg, tickPeriod |-> tickPeriod,
      tockPeriod |-> tockPeriod, lastTime |-> lastTime, timeBeforeLast |-> timeBeforeLast ]

Store(s) ==
    /\ runMode' = s.runMode
    /\ cycleCounter' = s.cycleCounter
    /\ tgtSettle' = s.tgtSettle
    /\ tgtScale' = s.tgtScale
    /\ tgtSmoothing' = s.tgtSmoothing
    /\ curSmoothing' = s.curSmoothing
    /\ uspb' = s.uspb
    /\ bias' = s.bias
    /\ peakScale' = s.peakScale
    /\ tick' = s.tick
    /\ tickAvg' = s.tickAvg
    /\ tockAvg' = s.tockAvg
    /\ tickPeriod' = s.tickPeriod
    /\ tockPeriod' = s.tockPeriod
    /\ lastTime' = s.lastTime
    /\ timeBeforeLast' = s.timeBeforeLast

(***************************************************************************)
(* Bendulum::setRunMode(byte mode)                                         *)
(***************************************************************************)
\* a setRunMode that enters CALIBRATING without restarting curSmoothing
setRunModeFieldsKeepsSmoothing(s, mode) ==
    CASE mode = SETTLING    -> [s EXCEPT !.runMode = SETTLING, !.cycleCounter = 1]
      [] mode = SCALING     -> [s EXCEPT !.runMode = SCALING, !.cycleCounter = 1,
                                         !.peakScale = InitPeakScale]
      [] mode = CALIBRATING -> [s EXCEPT !.runMode = CALIBRATING, !.tickAvg = 0,
                                         !.tockAvg = 0]
      [] mode = CALFINISH   -> [s EXCEPT !.runMode = CALFINISH]
      [] mode = RUNNING     -> [s EXCEPT !.runMode = RUNNING]
      [] OTHER              -> s

\* a setRunMode that restarts the averages on entering RUNNING
setRunModeFieldsRunningClearsAverages(s, mode) ==
    CASE mode = SETTLING    -> [s EXCEPT !.runMode = SETTLING, !.cycleCounter = 1]
      [] mode = SCALING     -> [s EXCEPT !.runMode = SCALING, !.cycleCounter = 1,
                                         !.peakScale = InitPeakScale]
      [] mode = CALIBRATING -> [s EXCEPT !.runMode = CALIBRATING, !.tickAvg = 0,
                                         !.tockAvg = 0, !.curSmoothing = 1]
      [] mode = CALFINISH   -> [s EXCEPT !.runMode = CALFINISH]
      [] mode = RUNNING     -> [s EXCEPT !.runMode = RUNNING, !.tickAvg = 0, !.tockAvg = 0]
      [] OTHER              -> s

\* a setRunMode that also clears the clock correction
setRunModeFieldsResetsBias(s, mode) ==
    CASE mode = SETTLING    -> [s EXCEPT !.runMode = SETTLING, !.cycleCounter = 1, !.bias = 0]
      [] mode = SCALING     -> [s EXCEPT !.runMode = SCALING, !.cycleCounter = 1,
                                         !.peakScale = InitPeakScale, !.bias = 0]
      [] mode = CALIBRATING -> [s EXCEPT !.runMode = CALIBRATING, !.tickAvg = 0,
                                         !.tockAvg = 0, !.curSmoothing = 1, !.bias = 0]
      [] mode = CALFINISH   -> [s EXCEPT !.runMode = CALFINISH, !.bias = 0]
      [] mode = RUNNING     -> [s EXCEPT !.runMode = RUNNING, !.bias = 0]
      [] OTHER              -> s

setRunModeFields(s, mode) ==
    CASE mode = SETTLING    -> [s EXCEPT !.runMode = SETTLING, !.cycleCounter = 1]
      [] mode = SCALING     -> [s EXCEPT !.runMode = SCALING, !.cycleCounter = 1,
                                         !.peakScale = InitPeakScale]
      [] mode = CALIBRATING -> [s EXCEPT !.runMode = CALIBRATING, !.tickAvg = 0,
                                         !.tockAvg = 0, !.curSmoothing = 1]
      [] mode = CALFINISH   -> [s EXCEPT !.runMode = CALFINISH]
      [] mode = RUNNING     -> [s EXCEPT !.runMode = RUNNING]
      [] OTHER              -> s

(***************************************************************************)
(* Bendulum::beat(): the measurement                                       *)
(***************************************************************************)
\* x += ((bias * x) + 432000) / 864000, for x = topTime - lastTime
\* the correction with the rounding half added after the division
CorrectedHalfOutside(b, r) == r + CDiv(b * r, TenthsPerDay) + HalfTenthsPerDay

Corrected(b, r) == r + CDiv((b * r) + HalfTenthsPerDay, TenthsPerDay)

\* the check for implausible beats left out
PlausibleKeepsAll(u) == u

\* if (uspb > 5000000) uspb = 0
Plausible(u) == IF u > MaxBeatMicros THEN 0 ELSE u

\* ">=" written for ">": every phase ends one cycle early
PhaseDoneEarly(counter, tgt) == counter >= tgt

\* if (++cycleCounter > tgt), if (++curSmoothing > tgtSmoothing)
PhaseDone(counter, tgt) == counter > tgt

\* SETTLING handing over to CALIBRATING, SCALING left out
beatSettlingSkipsScaling(s, topTime) ==
    LET u  == Plausible(Corrected(s.bias, topTime - s.lastTime))
        s1 == [s EXCEPT !.uspb = u]
    IN  IF s.tick
        THEN [s1 EXCEPT !.tickPeriod = u]
        ELSE LET s2 == [s1 EXCEPT !.tockPeriod = u, !.cycleCounter = @ + 1]
             IN  IF PhaseDone(s2.cycleCounter, s2.tgtSettle)
                 THEN setRunModeFields(s2, CALIBRATING)
                 ELSE s2

\* case SETTLING
beatSettling(s, topTime) ==
    LET u  == Plausible(Corrected(s.bias, topTime - s.lastTime))
        s1 == [s EXCEPT !.uspb = u]
    IN  IF s.tick
        THEN [s1 EXCEPT !.tickPeriod = u]
        ELSE LET s2 == [s1 EXCEPT !.tockPeriod = u, !.cycleCounter = @ + 1]
             IN  IF PhaseDone(s2.cycleCounter, s2.tgtSettle)
                 THEN setRunModeFields(s2, SCALING)
                 ELSE s2

\* case SCALING raising peakScale for a peak that only reaches maxPeak
beatScalingRaisesAtMaxPeak(s, topTime, pastCoil) ==
    LET s0 == IF pastCoil >= maxPeak THEN [s EXCEPT !.peakScale = @ + 1] ELSE s
        u  == Plausible(Corrected(s0.bias, topTime - s0.lastTime))
        s1 == [s0 EXCEPT !.uspb = u]
    IN  IF s.tick
        THEN [s1 EXCEPT !.tickPeriod = u]
        ELSE LET s2 == [s1 EXCEPT !.tockPeriod = u, !.cycleCounter = @ + 1]
             IN  IF PhaseDone(s2.cycleCounter, s2.tgtScale)
                 THEN setRunModeFields(s2, CALIBRATING)
                 ELSE s2

\* case SCALING
beatScaling(s, topTime, pastCoil) ==
    LET s0 == IF pastCoil > maxPeak THEN [s EXCEPT !.peakScale = @ + 1] ELSE s
        u  == Plausible(Corrected(s0.bias, topTime - s0.lastTime))
        s1 == [s0 EXCEPT !.uspb = u]
    IN  IF s.tick
        THEN [s1 EXCEPT !.tickPeriod = u]
        ELSE LET s2 == [s1 EXCEPT !.tockPeriod = u, !.cycleCounter = @ + 1]
             IN  IF PhaseDone(s2.cycleCounter, s2.tgtScale)
                 THEN setRunModeFields(s2, CALIBRATING)
                 ELSE s2

\* uspb as the mean of the two averages even while tockAvg is 0
AvgBeatAlwaysMean(tAvg, kAvg) == CDiv(tAvg + kAvg, 2)

\* uspb at the end of case CALIBRATING
AvgBeat(tAvg, kAvg) == IF kAvg = 0 THEN tAvg ELSE CDiv(tAvg + kAvg, 2)

\* curSmoothing advanced on ticks as well as on tocks
beatCalibratingCountsTicks(s, topTime) ==
    LET s0 == IF s.tickAvg = 0 /\ ~s.tick THEN [s EXCEPT !.tick = TRUE] ELSE s
        p  == Corrected(s0.bias, topTime - s0.lastTime)
        s2 == IF s0.tick
              THEN [s0 EXCEPT !.tickPeriod = p,
                              !.tickAvg = @ + CDiv(p - @, s0.curSmoothing),
                              !.curSmoothing = @ + 1]
              ELSE [s0 EXCEPT !.tockPeriod = p,
                              !.tockAvg = @ + CDiv(p - @, s0.curSmoothing),
                              !.curSmoothing = @ + 1]
        s1 == IF PhaseDone(s2.curSmoothing, s2.tgtSmoothing)
              THEN setRunModeFields(s2, CALFINISH)
              ELSE s2
    IN  [s1 EXCEPT !.uspb = AvgBeat(s1.tickAvg, s1.tockAvg)]

\* case CALIBRATING with averages that add sample / curSmoothing instead of
\* (sample - average) / curSmoothing
beatCalibratingAddsSample(s, topTime) ==
    LET s0 == IF s.tickAvg = 0 /\ ~s.tick THEN [s EXCEPT !.tick = TRUE] ELSE s
        p  == Corrected(s0.bias, topTime - s0.lastTime)
        s1 == IF s0.tick
              THEN [s0 EXCEPT !.tickPeriod = p,
                              !.tickAvg = @ + CDiv(p, s0.curSmoothing)]
              ELSE LET s2 == [s0 EXCEPT !.tockPeriod = p,
                                        !.tockAvg = @ + CDiv(p, s0.curSmoothing),
                                        !.curSmoothing = @ + 1]
                   IN  IF PhaseDone(s2.curSmoothing, s2.tgtSmoothing)
                       THEN setRunModeFields(s2, CALFINISH)
                       ELSE s2
    IN  [s1 EXCEPT !.uspb = AvgBeat(s1.tickAvg, s1.tockAvg)]

\* case CALIBRATING without the lines that force the flag to tick
beatCalibratingNoForce(s, topTime) ==
    LET p  == Corrected(s.bias, topTime - s.lastTime)
        s1 == IF s.tick
              THEN [s EXCEPT !.tickPeriod = p,
                             !.tickAvg = @ + CDiv(p - @, s.curSmoothing)]
              ELSE LET s2 == [s EXCEPT !.tockPeriod = p,
                                       !.tockAvg = @ + CDiv(p - @, s.curSmoothing),
                                       !.curSmoothing = @ + 1]
                   IN  IF PhaseDone(s2.curSmoothing, s2.tgtSmoothing)
                       THEN setRunModeFields(s2, CALFINISH)
                       ELSE s2
    IN  [s1 EXCEPT !.uspb = AvgBeat(s1.tickAvg, s1.tockAvg)]

\* case CALIBRATING
beatCalibrating(s, topTime) ==
    LET s0 == IF s.tickAvg = 0 /\ ~s.tick THEN [s EXCEPT !.tick = TRUE] ELSE s
        p  == Corrected(s0.bias, topTime - s0.lastTime)
        s1 == IF s0.tick
              THEN [s0 EXCEPT !.tickPeriod = p,
                              !.tickAvg = @ + CDiv(p - @, s0.curSmoothing)]
              ELSE LET s2 == [s0 EXCEPT !.tockPeriod = p,
                                        !.tockAvg = @ + CDiv(p - @, s0.curSmoothing),
                                        !.curSmoothing = @ + 1]
                   IN  IF PhaseDone(s2.curSmoothing, s2.tgtSmoothing)
                       THEN setRunModeFields(s2, CALFINISH)
                       ELSE s2
    IN  [s1 EXCEPT !.uspb = AvgBeat(s1.tickAvg, s1.tockAvg)]

\* CALFINISH never left
beatCalfinishStays(s) == s

\* CALFINISH left with the beat duration cleared
beatCalfinishClearsUspb(s) == [setRunModeFields(s, RUNNING) EXCEPT !.uspb = 0]

\* case CALFINISH
beatCalfinish(s) == setRunModeFields(s, RUNNING)

\* the switch with RUNNING measuring the beat as SETTLING does
beatSwitchMeasuresInRunning(s, topTime, pastCoil) ==
    CASE s.runMode = SETTLING    -> beatSettling(s, topTime)
      [] s.runMode = SCALING     -> beatScaling(s, topTime, pastCoil)
      [] s.runMode = CALIBRATING -> beatCalibrating(s, topTime)
      [] s.runMode = CALFINISH   -> beatCalfinish(s)
      [] OTHER                   ->
            [s EXCEPT !.uspb = Plausible(Corrected(s.bias, topTime - s.lastTime))]

\* switch (runMode)
beatSwitch(s, topTime, pastCoil) ==
    CASE s.runMode = SETTLING    -> beatSettling(s, topTime)
      [] s.runMode = SCALING     -> beatScaling(s, topTime, pastCoil)
      [] s.runMode = CALIBRATING -> beatCalibrating(s, topTime)
      [] s.runMode = CALFINISH   -> beatCalfinish(s)
      [] OTHER                   -> s

\* if (lastTime == 0): the first time through
FirstTime(s) == s.lastTime = 0

\* the epilogue without "timeBeforeLast = lastTime"
beatEpilogueKeepsTimeBeforeLast(s, before, topTime) ==
    [s EXCEPT !.tick = ~@, !.lastTime = topTime]

\* tick = !tick; timeBeforeLast = lastTime; lastTime = topTime
beatEpilogue(s, before, topTime) ==
    [s EXCEPT !.tick = ~@, !.timeBeforeLast = before.lastTime, !.lastTime = topTime]

\* the first call dispatched like any other
beatFieldsNoBaseline(s, topTime, pastCoil) ==
    beatEpilogue(beatSwitch(s, topTime, pastCoil), s, topTime)

\* the fields after beat(), topTime and pastCoil being what the passage
\* detection loop left
beatFields(s, topTime, pastCoil) ==
    IF FirstTime(s)
    THEN [s EXCEPT !.lastTime = topTime]
    ELSE beatEpilogue(beatSwitch(s, topTime, pastCoil), s, topTime)

\* return 0 the first time through, return uspb otherwise
beatReturn(s, after) == IF FirstTime(s) THEN 0 ELSE after.uspb

\* the branch "else (tock)" is taken: tick is false and is not forced to true
IsTockBeat(s) == ~s.tick /\ ~(s.runMode = CALIBRATING /\ s.tickAvg = 0)

\* analogRead() yields 0 .. 1023: the loop "while (currCoil >= pastCoil)" can
\* end with pastCoil as the last scaled reading that was not below its
\* predecessor, which is at least 1 and at most 1023 / peakScale
MaxAnalogRead == 1023

PassageDetected(s, pastCoil) ==
    /\ s.peakScale >= 1
    /\ pastCoil >= 1
    /\ pastCoil * s.peakScale <= MaxAnalogRead

(***************************************************************************)
(* The kick pin                                                            *)
(***************************************************************************)
\* pinMode(kickPin, INPUT) in the constructor: high impedance, not driven
KickPinInput == [mode |-> "INPUT", level |-> "LOW", log |-> << >>, micros |-> 0]

\* the kick pin left driving high
beatCallsNoRelease(s) ==
    << "micros", "pinMode OUTPUT", "delay delayTime", "digitalWrite HIGH",
       "delay kickTime" >>
    \o (IF FirstTime(s) THEN << "return 0" >> ELSE << "switch runMode", "return uspb" >>)

\* what beat() does once the passage is detected, in the order of the code:
\* the timestamp, the kick pulse, then the test of lastTime and either
\* return 0 or the dispatch on runMode and return uspb
beatCalls(s) ==
    << "micros", "pinMode OUTPUT", "delay delayTime", "digitalWrite HIGH",
       "delay kickTime", "digitalWrite LOW", "pinMode INPUT" >>
    \o (IF FirstTime(s) THEN << "return 0" >> ELSE << "switch runMode", "return uspb" >>)

\* the kick pin after one call
pinAfter(k, call) ==
    IF call = "pinMode OUTPUT" THEN [k EXCEPT !.mode = "OUTPUT"]
    ELSE IF call = "pinMode INPUT" THEN [k EXCEPT !.mode = "INPUT"]
    ELSE IF call = "digitalWrite HIGH" THEN [k EXCEPT !.level = "HIGH"]
    ELSE IF call = "digitalWrite LOW" THEN [k EXCEPT !.level = "LOW"]
    ELSE k

RECURSIVE pinAfterAll(_, _)
pinAfterAll(k, calls) ==
    IF calls = << >> THEN k ELSE pinAfterAll(pinAfter(k, Head(calls)), Tail(calls))

\* the kick pin after a beat() call entered with the fields s, micros()
\* having returned topTime
kickAfterBeat(k, s, topTime) ==
    [pinAfterAll(k, beatCalls(s)) EXCEPT !.log = beatCalls(s), !.micros = topTime]

(***************************************************************************)
(* Passage detection                                                       *)
(***************************************************************************)
\* beat() is not running: its locals currCoil and pastCoil do not exist; raw
\* is the last reading of the sense pin, rawPeak (history) the highest
\* reading of the most recent loop "while (currCoil >= pastCoil)"
NotSensing == [pc |-> "idle", currCoil |-> 0, pastCoil |-> 0, raw |-> 0, rawPeak |-> 0]

(***************************************************************************)
(* History of a calibration run                                            *)
(***************************************************************************)
NoHistory ==
    [tickN |-> 0, forced |-> FALSE, ticks |-> {}, tocks |-> {}, oflow |-> FALSE, incr |-> 0]

\* a calibration run is over or a new one starts
HistReset(h) == [h EXCEPT !.tickN = 0, !.forced = FALSE, !.ticks = {}, !.tocks = {}]

\* history after a beat() call that takes the fields from s to a: tickN is
\* the curSmoothing of the tick sample taken since the last tock sample,
\* forced tells that the call found the flag on tock and forced it to tick,
\* ticks and tocks are the samples folded into tickAvg and tockAvg
HistAfterBeat(h, s, a) ==
    IF FirstTime(s) THEN h
    ELSE IF s.runMode = CALIBRATING
         THEN IF IsTockBeat(s)
              THEN [h EXCEPT !.tocks = @ \cup {a.tockPeriod}, !.tickN = 0,
                             !.forced = FALSE]
              ELSE [h EXCEPT !.ticks = @ \cup {a.tickPeriod}, !.tickN = s.curSmoothing,
                             !.forced = ~s.tick]
    ELSE IF s.runMode = CALFINISH THEN HistReset(h)
    ELSE h

(***************************************************************************)
(* Actions                                                                 *)
(***************************************************************************)
\* Bendulum::Bendulum(): the fields after construction
Init ==
    /\ cycleCounter = 1
    /\ \E tgt \in TargetChoices :
          /\ tgtSettle = tgt[1]
          /\ tgtScale = tgt[2]
          /\ tgtSmoothing = tgt[3]
    /\ curSmoothing = 1
    /\ uspb \in UninitLongs
    /\ bias = 0
    /\ peakScale = InitPeakScale
    /\ tick = TRUE
    /\ tickAvg = 0
    /\ tockAvg = 0
    /\ tickPeriod = 0
    /\ tockPeriod = 0
    /\ timeBeforeLast = 0
    /\ lastTime = 0
    /\ runMode = SETTLING
    /\ ret = 0
    /\ lastOp = "Bendulum"
    /\ everBeat = FALSE
    /\ beatsInMode = 0
    /\ pairsInMode = 0
    /\ modeCalls = 0
    /\ kick = KickPinInput
    /\ sense = NotSensing
    /\ hist = NoHistory

\* history: beatsInMode after a beat() call that takes the fields from s to a
BeatsInModeAfter(s, a, n) ==
    IF FirstTime(s) THEN n
    ELSE IF a.runMode # s.runMode THEN 0
    ELSE IF s.runMode \in {SETTLING, SCALING} THEN n + 1
    ELSE n

\* history: pairsInMode after a beat() call that takes the fields from s to a
PairsInModeAfter(s, a, n) ==
    IF FirstTime(s) THEN n
    ELSE IF a.runMode # s.runMode THEN 0
    ELSE IF s.runMode = CALIBRATING /\ IsTockBeat(s) THEN n + 1
    ELSE n

\* int on the AVR: 16 bits, two's complement
MaxInt == 32767

\* the call increments a counter that holds 32767: ++cycleCounter or
\* ++curSmoothing overflows an int
CounterOverflows(s) ==
    /\ ~FirstTime(s)
    /\ IsTockBeat(s)
    /\ \/ s.runMode \in {SETTLING, SCALING} /\ s.cycleCounter = MaxInt
       \/ s.runMode = CALIBRATING /\ s.curSmoothing = MaxInt

\* the fields after a beat() whose increment overflows, a being the fields
\* had the increment given 32768: the counter wraps to -32768, and the
\* comparison with the target either sees the wrapped counter (the phase
\* goes on) or is taken to hold (the phase ends)
beatWrapped(s, a, goesOn) ==
    CASE s.runMode = SETTLING ->
            IF goesOn
            THEN [a EXCEPT !.runMode = SETTLING, !.cycleCounter = -MaxInt - 1,
                           !.peakScale = s.peakScale]
            ELSE a
      [] s.runMode = SCALING ->
            IF goesOn
            THEN [a EXCEPT !.runMode = SCALING, !.cycleCounter = -MaxInt - 1,
                           !.tickAvg = s.tickAvg, !.tockAvg = s.tockAvg,
                           !.curSmoothing = s.curSmoothing]
            ELSE [a EXCEPT !.cycleCounter = -MaxInt - 1]
      [] OTHER ->
            IF goesOn
            THEN [a EXCEPT !.runMode = CALIBRATING, !.curSmoothing = -MaxInt - 1]
            ELSE [a EXCEPT !.curSmoothing = -MaxInt - 1]

\* the fields beat() can leave: signed overflow is undefined
beatOutcomes(s, topTime, pastCoil) ==
    LET a == beatFields(s, topTime, pastCoil)
    IN  IF CounterOverflows(s)
        THEN {beatWrapped(s, a, goesOn) : goesOn \in BOOLEAN}
        ELSE {a}

\* long Bendulum::beat(), for a passage stamped topTime with peak pastCoil
beat(topTime, pastCoil) ==
    LET s == Fields
    IN  \E a \in beatOutcomes(s, topTime, pastCoil) :
        /\ PassageDetected(s, pastCoil)
        /\ Store(a)
        /\ ret' = beatReturn(s, a)
        /\ lastOp' = IF FirstTime(s) THEN "beatFirst" ELSE "beat"
        /\ everBeat' = TRUE
        /\ UNCHANGED modeCalls
        /\ beatsInMode' = BeatsInModeAfter(s, a, beatsInMode)
        /\ pairsInMode' = PairsInModeAfter(s, a, pairsInMode)
        /\ kick' = kickAfterBeat(kick, s, topTime)
        /\ sense' = [NotSensing EXCEPT !.rawPeak = sense.rawPeak]
        /\ hist' = HistAfterBeat(hist, s, a)

\* a cycle() that makes one beat() call and doubles what it returns
cycleFieldsOneBeat(s, t1, p1, t2, p2) == beatFields(s, t2, p2)

\* the fields after beat() + beat(): the two calls one after the other
cycleFields(s, t1, p1, t2, p2) == beatFields(beatFields(s, t1, p1), t2, p2)

\* return beat() + beat()
cycleReturn(s, t1, p1, t2, p2) ==
    LET a == beatFields(s, t1, p1)
    IN  beatReturn(s, a) + beatReturn(a, beatFields(a, t2, p2))

\* long Bendulum::cycle(), for two passages stamped t1 and t2 with peaks p1
\* and p2
cycle(t1, p1, t2, p2) ==
    LET s == Fields
        a == beatFields(s, t1, p1)
        b == cycleFields(s, t1, p1, t2, p2)
    IN  /\ PassageDetected(s, p1)
        /\ PassageDetected(a, p2)
        /\ Store(b)
        /\ ret' = cycleReturn(s, t1, p1, t2, p2)
        /\ lastOp' = "cycle"
        /\ everBeat' = TRUE
        /\ UNCHANGED modeCalls
        /\ beatsInMode' = BeatsInModeAfter(a, b, BeatsInModeAfter(s, a, beatsInMode))
        /\ pairsInMode' = PairsInModeAfter(a, b, PairsInModeAfter(s, a, pairsInMode))
        /\ kick' = kickAfterBeat(kickAfterBeat(kick, s, t1), a, t2)
        /\ sense' = [NotSensing EXCEPT !.rawPeak = sense.rawPeak]
        /\ hist' = HistAfterBeat(HistAfterBeat(hist, s, a), a, b)

\* void Bendulum::setRunMode(byte mode)
setRunMode(mode) ==
    /\ modeCalls < MaxModeCalls
    /\ modeCalls' = modeCalls + 1
    /\ Store(setRunModeFields(Fields, mode))
    /\ lastOp' = "setRunMode"
    /\ beatsInMode' = IF mode \in Modes THEN 0 ELSE beatsInMode
    /\ pairsInMode' = IF mode \in Modes THEN 0 ELSE pairsInMode
    /\ hist' = IF mode \in Modes THEN HistReset(hist) ELSE hist
    /\ UNCHANGED << ret, everBeat, kick, sense >>

\* void Bendulum::setBias(int factor)
setBias(factor) ==
    /\ Store([Fields EXCEPT !.bias = factor])
    /\ lastOp' = "setBias"
    /\ UNCHANGED << ret, everBeat, beatsInMode, pairsInMode, modeCalls, kick, sense, hist >>

\* void Bendulum::setTgtSettle(int interval)
setTgtSettle(interval) ==
    /\ Store([Fields EXCEPT !.tgtSettle = interval])
    /\ lastOp' = "setTgtSettle"
    /\ UNCHANGED << ret, everBeat, beatsInMode, pairsInMode, modeCalls, kick, sense, hist >>

\* void Bendulum::setTgtSmoothing(int interval)
setTgtSmoothing(interval) ==
    /\ Store([Fields EXCEPT !.tgtSmoothing = interval])
    /\ lastOp' = "setTgtSmoothing"
    /\ UNCHANGED << ret, everBeat, beatsInMode, pairsInMode, modeCalls, kick, sense, hist >>

\* boolean Bendulum::isTick(): return tick
isTick(s) == s.tick

\* void Bendulum::setPeakScale(int scaleFactor)
setPeakScale(scaleFactor) ==
    /\ Store([Fields EXCEPT !.peakScale = scaleFactor])
    /\ lastOp' = "setPeakScale"
    /\ UNCHANGED << ret, everBeat, beatsInMode, pairsInMode, modeCalls, kick, sense, hist >>

\* setBeatDuration that sets the averages and leaves uspb alone
setBeatDurationFieldsAvgsOnly(s, beatDur) ==
    [s EXCEPT !.tickAvg = beatDur, !.tockAvg = beatDur]

\* uspb = tickAvg = tockAvg = beatDur
setBeatDurationFields(s, beatDur) ==
    [s EXCEPT !.uspb = beatDur, !.tickAvg = beatDur, !.tockAvg = beatDur]

\* void Bendulum::setBeatDuration(long beatDur)
setBeatDuration(beatDur) ==
    /\ Store(setBeatDurationFields(Fields, beatDur))
    /\ lastOp' = "setBeatDuration"
    /\ UNCHANGED << ret, everBeat, beatsInMode, pairsInMode, modeCalls, kick, sense, hist >>

\* long on the AVR: 32 bits, two's complement
MaxLong == 2147483647

\* (a * b) + 432000 can be computed in a long: neither the product nor the
\* sum leaves -MaxLong - 1 .. MaxLong
MulAddFits(a, b) ==
    IF a = 0 \/ b = 0 THEN TRUE
    ELSE IF (a > 0) = (b > 0)
         THEN Abs(a) <= (MaxLong - HalfTenthsPerDay) \div Abs(b)
         ELSE \/ Abs(a) <= MaxLong \div Abs(b)
              \/ /\ Abs(a) = (MaxLong \div Abs(b)) + 1
                 /\ MaxLong % Abs(b) = Abs(b) - 1

\* long noOflow = 2000000000 / uspb
NoOflowLimit == 2000000000

\* one adjustment: uspb += ((step * uspb) + 432000) / 864000
incrStep(u, step) == u + CDiv((step * u) + HalfTenthsPerDay, TenthsPerDay)

\* while (incr > noOflow) { ...noOflow... ; incr -= noOflow; } and the last
\* adjustment by what is left of incr; oflow tells that a product or sum
\* left the range of long, uspb is then the value before that adjustment
RECURSIVE incrFrom(_, _, _)
incrFrom(u, incr, noOflow) ==
    IF incr > noOflow
    THEN IF MulAddFits(noOflow, u)
         THEN incrFrom(incrStep(u, noOflow), incr - noOflow, noOflow)
         ELSE [oflow |-> TRUE, uspb |-> u]
    ELSE IF MulAddFits(incr, u)
         THEN [oflow |-> FALSE, uspb |-> incrStep(u, incr)]
         ELSE [oflow |-> TRUE, uspb |-> u]

\* signed overflow is undefined: the adjustment may leave any value
OverflowOutcomes == {-2000000000, -1, 0, 1, 2000000000}

\* long Bendulum::incrBeatDuration(long incr), called with uspb in
\* 1 .. 2000000000 (uspb = 0 divides by zero; above 2000000000 noOflow is 0)
incrBeatDuration(incr) ==
    LET r == incrFrom(uspb, incr, CDiv(NoOflowLimit, uspb))
    IN  /\ uspb >= 1
        /\ uspb <= NoOflowLimit
        /\ \E v \in (IF r.oflow THEN OverflowOutcomes ELSE {r.uspb}) :
              /\ Store([Fields EXCEPT !.uspb = v, !.tickAvg = v, !.tockAvg = v])
              /\ ret' = v
        /\ hist' = [hist EXCEPT !.oflow = r.oflow, !.incr = incr]
        /\ lastOp' = "incrBeatDuration"
        /\ UNCHANGED << everBeat, beatsInMode, pairsInMode, modeCalls, kick, sense >>

\* beat() is entered: int currCoil = 0; int pastCoil = 0; delay(settleTime)
beatEnter ==
    /\ sense.pc = "idle"
    /\ sense' = [pc |-> "zero", currCoil |-> 0, pastCoil |-> 0, raw |-> 0, rawPeak |-> 0]
    /\ UNCHANGED << runMode, cycleCounter, tgtSettle, tgtScale, tgtSmoothing, curSmoothing,
                    uspb, bias, peakScale, tick, tickAvg, tockAvg, tickPeriod, tockPeriod,
                    lastTime, timeBeforeLast, ret, lastOp, everBeat, beatsInMode,
                    pairsInMode, modeCalls, kick, hist >>

\* do { currCoil = analogRead(sensePin); } while (currCoil > 0), one reading
beatAwaitZero(reading) ==
    /\ sense.pc = "zero"
    /\ sense' = [sense EXCEPT !.currCoil = reading, !.raw = reading,
                              !.pc = IF reading > 0 THEN "zero" ELSE "peak"]
    /\ UNCHANGED << runMode, cycleCounter, tgtSettle, tgtScale, tgtSmoothing, curSmoothing,
                    uspb, bias, peakScale, tick, tickAvg, tockAvg, tickPeriod, tockPeriod,
                    lastTime, timeBeforeLast, ret, lastOp, everBeat, beatsInMode,
                    pairsInMode, modeCalls, kick, hist >>

\* the loop comparing the readings as they are, not divided by peakScale
beatAwaitPeakUnscaled(reading) ==
    /\ sense.pc = "peak"
    /\ sense.currCoil >= sense.pastCoil
    /\ sense' = [sense EXCEPT !.pastCoil = sense.currCoil,
                              !.currCoil = reading,
                              !.raw = reading,
                              !.rawPeak = IF reading > @ THEN reading ELSE @]
    /\ UNCHANGED << runMode, cycleCounter, tgtSettle, tgtScale, tgtSmoothing, curSmoothing,
                    uspb, bias, peakScale, tick, tickAvg, tockAvg, tickPeriod, tockPeriod,
                    lastTime, timeBeforeLast, ret, lastOp, everBeat, beatsInMode,
                    pairsInMode, modeCalls, kick, hist >>

\* while (currCoil >= pastCoil) { pastCoil = currCoil; currCoil =
\* analogRead(sensePin) / peakScale; }, one reading; rawPeak is the highest
\* reading of this loop so far
beatAwaitPeak(reading) ==
    /\ sense.pc = "peak"
    /\ sense.currCoil >= sense.pastCoil
    /\ peakScale # 0
    /\ sense' = [sense EXCEPT !.pastCoil = sense.currCoil,
                              !.currCoil = CDiv(reading, peakScale),
                              !.raw = reading,
                              !.rawPeak = IF reading > @ THEN reading ELSE @]
    /\ UNCHANGED << runMode, cycleCounter, tgtSettle, tgtScale, tgtSmoothing, curSmoothing,
                    uspb, bias, peakScale, tick, tickAvg, tockAvg, tickPeriod, tockPeriod,
                    lastTime, timeBeforeLast, ret, lastOp, everBeat, beatsInMode,
                    pairsInMode, modeCalls, kick, hist >>

\* the loop is left with currCoil < pastCoil: the rest of beat(), from
\* topTime = micros() to the return
beatPassed(topTime) ==
    /\ sense.pc = "peak"
    /\ sense.currCoil < sense.pastCoil
    /\ beat(topTime, sense.pastCoil)

BeatIn(stamps) == \E topTime \in stamps, pastCoil \in PastCoils : beat(topTime, pastCoil)

\* A passage is stamped at least settleTime + delayTime + kickTime after the
\* one before: here the stamp always differs from the last one
BeatStep == BeatIn(MainTimes \ {lastTime})

SetRunModeStep == \E mode \in ModeArgs : setRunMode(mode)

SetBiasStep == \E factor \in Biases : setBias(factor)

SetPeakScaleStep == \E scaleFactor \in PeakScales : setPeakScale(scaleFactor)

Next ==
    \/ BeatStep
    \/ SetRunModeStep
    \/ SetBiasStep

Spec == Init /\ [][Next]_vars

(***************************************************************************)
(* The engine left to itself: the sketch's loop() calls beat() and nothing *)
(* else                                                                    *)
(***************************************************************************)
NextAuto == BeatIn(Times \ {lastTime})

SpecAuto == Init /\ [][NextAuto]_vars

\* loop() is called over and over and the bendulum keeps swinging: beat()
\* is called, and returns, again and again
SpecAutoFair == SpecAuto /\ WF_vars(NextAuto)

(***************************************************************************)
(* The sketch sets the peak scaling and the mode itself                    *)
(***************************************************************************)
NextPeak ==
    \/ BeatStep
    \/ SetRunModeStep
    \/ SetPeakScaleStep

SpecPeak == Init /\ [][NextPeak]_vars

(***************************************************************************)
(* A bendulum whose beat is known: the sketch constructs the object, calls *)
(* setRunMode(RUNNING) and setBeatDuration, may set the peak scaling with   *)
(* setPeakScale, and then calls beat() over and over                       *)
(***************************************************************************)
NextKnown ==
    \/ lastOp = "Bendulum" /\ setRunMode(RUNNING)
    \/ lastOp = "setRunMode" /\ \E beatDur \in KnownDurations : setBeatDuration(beatDur)
    \/ lastOp = "setBeatDuration" /\ SetPeakScaleStep
    \/ /\ lastOp \in {"setBeatDuration", "setPeakScale", "beat", "beatFirst"}
       /\ BeatIn(Times \ {lastTime})

SpecKnown == Init /\ [][NextKnown]_vars

(***************************************************************************)
(* Recalibration: the sketch's loop() calls beat() and, once, at any point *)
(* of the run, setRunMode(CALIBRATING)                                     *)
(***************************************************************************)
Recalibrate == modeCalls = 0 /\ setRunMode(CALIBRATING)

NextRecal ==
    \/ BeatStep
    \/ Recalibrate

SpecRecal == Init /\ [][NextRecal]_vars

\* loop() keeps calling beat() and the bendulum keeps swinging
SpecRecalFair == SpecRecal /\ WF_vars(BeatStep)

(***************************************************************************)
(* The sketch's loop() calls beat() or cycle()                             *)
(***************************************************************************)
CycleStep ==
    \E t1 \in MainTimes \ {lastTime}, p1 \in PastCoils :
        \E t2 \in MainTimes \ {t1}, p2 \in PastCoils : cycle(t1, p1, t2, p2)

NextCycle ==
    \/ BeatStep
    \/ CycleStep

SpecCycle == Init /\ [][NextCycle]_vars

MeasuringModes == {SETTLING, SCALING, CALIBRATING}

(***************************************************************************)
(* Beats that last longer than 5 s                                         *)
(***************************************************************************)
NextLong ==
    \/ BeatIn(LongTimes \ {lastTime})
    \/ SetBiasStep

SpecLong == Init /\ [][NextLong]_vars

(***************************************************************************)
(* The bias correction as a function of the bias and the raw interval: the *)
(* engine after the constructor, setBias(b), setRunMode(m) and the first   *)
(* beat() call, then one more beat() a raw interval later                  *)
(***************************************************************************)
InitBias ==
    /\ cycleCounter = 1
    /\ tgtSettle = MaxTgt
    /\ tgtScale = MaxTgt
    /\ tgtSmoothing = MaxTgt
    /\ curSmoothing = 1
    /\ uspb \in UninitLongs
    /\ bias \in BiasInputs
    /\ peakScale = InitPeakScale
    /\ tick = TRUE
    /\ tickAvg = 0
    /\ tockAvg = 0
    /\ tickPeriod = 0
    /\ tockPeriod = 0
    /\ timeBeforeLast = 0
    /\ lastTime \in BaseStamps
    /\ runMode \in MeasuringModes
    /\ ret = 0
    /\ lastOp = "beatFirst"
    /\ everBeat = TRUE
    /\ beatsInMode = 0
    /\ pairsInMode = 0
    /\ modeCalls = 1
    /\ kick = kickAfterBeat(KickPinInput, [lastTime |-> 0], lastTime)
    /\ sense = NotSensing
    /\ hist = NoHistory

NextBias ==
    /\ lastOp = "beatFirst"
    /\ BeatIn({lastTime + r : r \in RawIntervals})

SpecBias == InitBias /\ [][NextBias]_vars

(***************************************************************************)
(* Adjusting a known beat: the sketch constructs the object, sets the beat *)
(* duration with setBeatDuration and adjusts it with incrBeatDuration      *)
(***************************************************************************)
IncrDurations == {1000, 1000000, 1500000, 2000000}

Incrs == {-3000, -2000, -1, 0, 1, 2000, 5000, 4500000}

NextIncr ==
    \/ lastOp = "Bendulum" /\ \E beatDur \in IncrDurations : setBeatDuration(beatDur)
    \/ lastOp = "setBeatDuration" /\ \E incr \in Incrs : incrBeatDuration(incr)

SpecIncr == Init /\ [][NextIncr]_vars

(***************************************************************************)
(* Passage detection reading by reading: loop() calls beat(), which reads  *)
(* the sense pin until the reading has been 0 and then until the scaled    *)
(* reading falls; between calls the sketch may set the peak scaling        *)
(***************************************************************************)
Readings == {0, 5, 25}

AwaitZeroStep == \E reading \in Readings : beatAwaitZero(reading)

AwaitPeakStep == \E reading \in Readings : beatAwaitPeak(reading)

PassedStep == \E topTime \in MainTimes \ {lastTime} : beatPassed(topTime)

NextSense ==
    \/ beatEnter
    \/ AwaitZeroStep
    \/ AwaitPeakStep
    \/ PassedStep
    \/ sense.pc = "idle" /\ SetPeakScaleStep

SpecSense == Init /\ [][NextSense]_vars

\* beat() keeps running once it is entered
SpecSenseFair == SpecSense /\ WF_vars(AwaitPeakStep) /\ WF_vars(PassedStep)

(***************************************************************************)
(* Long phases: before the first beat() the sketch sets the settling or    *)
(* the smoothing target to the largest values an int holds, then loop()    *)
(* calls beat(); the run is followed until a counter leaves 1 .. 32767     *)
(***************************************************************************)
LongTargets == {MaxInt - 1, MaxInt}

\* the two other targets are 1
ShortTargets == tgtSettle = 1 /\ tgtScale = 1 /\ tgtSmoothing = 1

NextWrap ==
    \/ /\ lastOp = "Bendulum"
       /\ ShortTargets
       /\ \E interval \in LongTargets : setTgtSettle(interval)
    \/ /\ lastOp = "Bendulum"
       /\ ShortTargets
       /\ \E interval \in LongTargets : setTgtSmoothing(interval)
    \/ /\ cycleCounter >= 1
       /\ curSmoothing >= 1
       /\ BeatIn(IF lastTime = 0 THEN {1000000} ELSE MainTimes \ {lastTime})

SpecWrap == Init /\ [][NextWrap]_vars

(***************************************************************************)
(* Calibration runs with steady and unsteady beats: loop() calls beat(),   *)
(* the stamps allow runs of up to four equal samples; the sketch may call  *)
(* setRunMode(CALIBRATING) once                                            *)
(***************************************************************************)
CalTimes == {1000000, 2000000, 3000000, 4000000, 5000000}

\* every passage peaks at maxPeak: SCALING leaves peakScale alone
CalBeatStep == \E topTime \in CalTimes \ {lastTime} : beat(topTime, maxPeak)

NextCal ==
    \/ CalBeatStep
    \/ Recalibrate

SpecCal == Init /\ [][NextCal]_vars

(***************************************************************************)
(* Claims                                                                  *)
(***************************************************************************)
BeatOps == {"beat", "beatFirst"}

\* C1: a beat() call leaves runMode as it is or moves it to the next mode of
\* SETTLING, SCALING, CALIBRATING, CALFINISH, RUNNING; any other change of
\* runMode is made by a setRunMode call.
C1_BeatAdvancesModeInOrder ==
    [][ /\ runMode' \in Modes
        /\ lastOp' \in BeatOps => (runMode' = runMode \/ runMode' = runMode + 1)
        /\ runMode' # runMode => lastOp' \in {"beat", "setRunMode"} ]_vars

C1_Witness ==
    /\ runMode = RUNNING
    /\ lastOp = "beat"
    /\ modeCalls = 0

\* C2: left to itself, with positive targets, the engine reaches RUNNING
\* after finitely many beat() calls and is in RUNNING ever after.
C2_EventuallyRunningForever == <>[](runMode = RUNNING)

C2_Witness ==
    /\ runMode = RUNNING
    /\ lastOp = "beat"
    /\ tgtSettle >= 1 /\ tgtScale >= 1 /\ tgtSmoothing = MaxTgt
    /\ ret = uspb

\* C3: left to itself, the engine leaves SETTLING for SCALING on the beat
\* that is the 2 * tgtSettle-th it measures in SETTLING, a tock, and no
\* sooner; and it leaves SCALING for CALIBRATING on the 2 * tgtScale-th beat
\* it measures in SCALING, a tock, and no sooner.  (A call taken as the
\* first one measures no beat and is not counted.)
C3_SettleAndScaleLast ==
    [][ lastOp' = "beat" =>
          /\ runMode = SETTLING =>
                /\ runMode' \in {SETTLING, SCALING}
                /\ runMode' = SCALING <=> beatsInMode + 1 = 2 * tgtSettle
                /\ runMode' = SCALING => ~tick
          /\ runMode = SCALING =>
                /\ runMode' \in {SCALING, CALIBRATING}
                /\ runMode' = CALIBRATING <=> beatsInMode + 1 = 2 * tgtScale
                /\ runMode' = CALIBRATING => ~tick ]_vars

C3_Witness ==
    /\ runMode = CALIBRATING
    /\ lastOp = "beat"
    /\ pairsInMode = 0
    /\ tickAvg = 0
    /\ tgtSettle = MaxTgt \/ tgtScale = MaxTgt

C5_NextBeatLeavesCalfinish ==
    [][ (lastOp' \in BeatOps /\ runMode = CALFINISH) =>
          (runMode' = RUNNING /\ uspb' = uspb) ]_vars

\* C5 as amended: whenever runMode is CALFINISH and a passage has been
\* recorded before (lastTime # 0), the very next beat() call makes it RUNNING
\* and leaves uspb unchanged; a beat() call taken as the first one
\* (lastTime = 0) leaves the engine in CALFINISH.
C5_DispatchedBeatLeavesCalfinish ==
    [][ (lastOp' \in BeatOps /\ runMode = CALFINISH) =>
          IF lastTime # 0
          THEN runMode' = RUNNING /\ uspb' = uspb /\ ret' = uspb
          ELSE runMode' = CALFINISH /\ uspb' = uspb ]_vars

C5_Witness ==
    /\ runMode = RUNNING
    /\ lastOp = "beat"
    /\ modeCalls = 0
    /\ curSmoothing > tgtSmoothing
    /\ ret = uspb
    /\ lastTime # 0

\* C6: setRunMode(m), m one of the five modes, sets runMode to m and resets
\* the fields the mode owns (SETTLING: cycleCounter = 1; SCALING:
\* cycleCounter = 1, peakScale = 10; CALIBRATING: tickAvg = tockAvg = 0,
\* curSmoothing = 1; CALFINISH, RUNNING: none) and changes no other field.
C6_SetRunModeFrame ==
    [][ \A m \in Modes : setRunMode(m) =>
          /\ runMode' = m
          /\ cycleCounter' = IF m \in {SETTLING, SCALING} THEN 1 ELSE cycleCounter
          /\ peakScale' = IF m = SCALING THEN 10 ELSE peakScale
          /\ tickAvg' = IF m = CALIBRATING THEN 0 ELSE tickAvg
          /\ tockAvg' = IF m = CALIBRATING THEN 0 ELSE tockAvg
          /\ curSmoothing' = IF m = CALIBRATING THEN 1 ELSE curSmoothing
          /\ UNCHANGED << bias, uspb, tick, lastTime, timeBeforeLast, tgtSettle,
                          tgtScale, tgtSmoothing, tickPeriod, tockPeriod >> ]_vars

C6_Witness ==
    /\ lastOp = "setRunMode"
    /\ runMode = SETTLING
    /\ bias # 0
    /\ tickAvg # 0 /\ tockAvg # 0
    /\ peakScale > InitPeakScale
    /\ tockPeriod # 0

\* C7: the first beat() call ever made, in whatever mode, returns 0, stores
\* the stamp of the passage in lastTime and changes no other field.
C7_FirstBeatOnlyRecords ==
    [][ \A topTime \in MainTimes, pastCoil \in PastCoils :
          (beat(topTime, pastCoil) /\ ~everBeat) =>
              /\ ret' = 0
              /\ lastTime' = topTime
              /\ UNCHANGED << runMode, cycleCounter, tgtSettle, tgtScale, tgtSmoothing,
                              curSmoothing, uspb, bias, peakScale, tick, tickAvg,
                              tockAvg, tickPeriod, tockPeriod, timeBeforeLast >> ]_vars

C7_Witness ==
    /\ lastOp = "beatFirst"
    /\ runMode = CALIBRATING
    /\ ret = 0
    /\ lastTime # 0
    /\ bias # 0

\* q is an integer nearest to x / d
IsNearest(q, x, d) == 2 * Abs((d * q) - x) <= d

\* The raw interval of the beat measured last, a tick
RawOfLastBeat == lastTime - timeBeforeLast

\* The corrected interval has not been replaced by 0 as implausible
TickKept == runMode = CALIBRATING \/ tickPeriod # 0

\* C8 as claimed: for a raw interval r of at most 5000000 and any bias b the
\* corrected interval that a measuring beat() computes is r plus b * r / 864000
\* rounded to the nearest integer.
C8_CorrectionIsRounded ==
    (lastOp = "beat" /\ RawOfLastBeat <= MaxBeatMicros /\ TickKept) =>
        IsNearest(tickPeriod - RawOfLastBeat, bias * RawOfLastBeat, 864000)

\* C9 as claimed: with a bias above 0 the corrected interval that beat()
\* reports is at most the raw interval.
C9_PositiveBiasShortens ==
    (lastOp = "beat" /\ bias > 0 /\ TickKept) => tickPeriod <= RawOfLastBeat

\* C10 as claimed: in SETTLING, SCALING and CALIBRATING a beat() whose
\* measured interval exceeds 5000000 leaves uspb, tickAvg and tockAvg as they
\* were before the call.
C10_LongBeatRetainsEstimate ==
    [][ ( /\ lastOp' = "beat"
          /\ runMode \in MeasuringModes
          /\ lastTime' - lastTime > MaxBeatMicros ) =>
            (uspb' = uspb /\ tickAvg' = tickAvg /\ tockAvg' = tockAvg) ]_vars

\* C10 as amended: in SETTLING and SCALING a beat() whose bias-corrected
\* interval exceeds 5000000 reports 0: uspb and the tick or tock period of
\* that beat become 0 and the running averages keep their values.  In
\* CALIBRATING there is no such check: the interval is recorded as the tick
\* or tock period and folded into the running average of its half-cycle.
C10_LongBeatReportsZero ==
    [][ ( /\ lastOp' = "beat"
          /\ runMode \in MeasuringModes
          /\ Corrected(bias, lastTime' - lastTime) > MaxBeatMicros ) =>
            IF runMode \in {SETTLING, SCALING}
            THEN /\ uspb' = 0
                 /\ ret' = 0
                 /\ IF tick THEN tickPeriod' = 0 ELSE tockPeriod' = 0
                 /\ IF runMode' = CALIBRATING
                    THEN tickAvg' = 0 /\ tockAvg' = 0
                    ELSE tickAvg' = tickAvg /\ tockAvg' = tockAvg
            ELSE IF IsTockBeat(Fields)
                 THEN /\ tockPeriod' = Corrected(bias, lastTime' - lastTime)
                      /\ tockAvg' = tockAvg + CDiv(tockPeriod' - tockAvg, curSmoothing)
                      /\ tickAvg' = tickAvg
                 ELSE /\ tickPeriod' = Corrected(bias, lastTime' - lastTime)
                      /\ tickAvg' = tickAvg + CDiv(tickPeriod' - tickAvg, curSmoothing)
                      /\ tockAvg' = tockAvg ]_vars

C10_Witness ==
    /\ lastOp = "beat"
    /\ runMode = SCALING
    /\ lastTime - timeBeforeLast > MaxBeatMicros
    /\ uspb = 0
    /\ beatsInMode > 0

\* C11 as claimed, for the beats that measure: after a beat() call that
\* was dispatched in SETTLING, SCALING or CALIBRATING (the engine is not in
\* RUNNING after it), beatDuration (uspb) and the value returned are >= 0.
C11_BeatDurationNonNegative ==
    (lastOp = "beat" /\ runMode # RUNNING) => (uspb >= 0 /\ ret >= 0)

\* C12 as claimed: a beat() call that begins in SCALING leaves peakScale as
\* it is or raises it by one, by one exactly when the scaled peak of that
\* beat is above maxPeak; a beat() call that begins in any other mode leaves
\* peakScale unchanged.
C12_PeakScaleOnlyInScaling ==
    [][ \A topTime \in MainTimes, pastCoil \in PastCoils :
          beat(topTime, pastCoil) =>
              IF runMode = SCALING /\ lastTime # 0
              THEN peakScale' = peakScale + (IF pastCoil > maxPeak THEN 1 ELSE 0)
              ELSE peakScale' = peakScale ]_vars

\* C12 as amended: as claimed, except that the beat() call that completes
\* the settle phase (begins in SETTLING, ends in SCALING) resets peakScale
\* to 10, whatever it was.
C12_PeakScaleResetOnEnteringScaling ==
    [][ \A topTime \in MainTimes, pastCoil \in PastCoils :
          beat(topTime, pastCoil) =>
              IF runMode = SCALING /\ lastTime # 0
              THEN peakScale' = peakScale + (IF pastCoil > maxPeak THEN 1 ELSE 0)
              ELSE IF runMode = SETTLING /\ runMode' = SCALING
                   THEN peakScale' = 10
                   ELSE peakScale' = peakScale ]_vars

C12_Witness ==
    /\ lastOp = "beat"
    /\ runMode = SCALING
    /\ beatsInMode > 0
    /\ peakScale > InitPeakScale + 10

\* C13 as claimed: after the constructor, setRunMode(RUNNING) and
\* setBeatDuration(1000000), every beat() call returns 1000000 and leaves
\* the mode at RUNNING.
C13_KnownBeatReported ==
    [][ lastOp' \in BeatOps => (ret' = 1000000 /\ runMode' = RUNNING) ]_vars

\* C13 as amended: after the constructor, setRunMode(RUNNING) and
\* setBeatDuration(1000000), beatDuration is 1000000 and every beat() call
\* leaves it so and leaves the mode at RUNNING; a beat() call made while
\* lastTime is 0 (the first one) returns 0, every other one returns 1000000.
C13_KnownBeatReportedAfterBaseline ==
    [][ /\ lastOp' = "setBeatDuration" => (uspb' = 1000000 /\ runMode' = RUNNING)
        /\ lastOp' \in BeatOps =>
              /\ runMode' = RUNNING
              /\ uspb' = 1000000
              /\ ret' = IF lastTime = 0 THEN 0 ELSE 1000000 ]_vars

C13_Witness ==
    /\ lastOp = "beat"
    /\ runMode = RUNNING
    /\ ret = 1000000
    /\ tickAvg = 1000000
    /\ lastTime - timeBeforeLast = 1000000
    /\ timeBeforeLast # 0

\* The mean of the running averages, tickAvg alone while tockAvg is 0
MeanOfAverages == IF tockAvg = 0 THEN tickAvg ELSE CDiv(tickAvg + tockAvg, 2)

C15_Recalibration ==
    /\ [][ lastOp' = "setRunMode" =>
              /\ runMode' = CALIBRATING
              /\ curSmoothing' = 1 /\ tickAvg' = 0 /\ tockAvg' = 0 ]_vars
    /\ [][ (lastOp' = "beat" /\ modeCalls = 1) =>
              /\ runMode = CALIBRATING =>
                    /\ runMode' \in {CALIBRATING, CALFINISH}
                    /\ runMode' = CALFINISH <=>
                          (IsTockBeat(Fields) /\ pairsInMode + 1 = tgtSmoothing)
              /\ runMode = CALFINISH => runMode' = RUNNING
              /\ runMode = RUNNING => runMode' = RUNNING ]_vars
    /\ (modeCalls = 1) ~> [](runMode = RUNNING)

C15_Witness ==
    /\ lastOp = "beat"
    /\ runMode = RUNNING
    /\ modeCalls = 1
    /\ cycleCounter > 1
    /\ tgtSmoothing = MaxTgt
    /\ curSmoothing = tgtSmoothing + 1

\* C16: setRunMode(RUNNING), called in any state, leaves uspb, tickAvg and
\* tockAvg unchanged, and called again right after (the engine then being in
\* RUNNING) it changes no field at all.
C16_SetRunningIdempotent ==
    [][ setRunMode(RUNNING) =>
          /\ runMode' = RUNNING
          /\ UNCHANGED << uspb, tickAvg, tockAvg >>
          /\ runMode = RUNNING => Fields' = Fields ]_vars

C16_Witness ==
    /\ lastOp = "setRunMode"
    /\ runMode = RUNNING
    /\ modeCalls = 2
    /\ curSmoothing > tgtSmoothing
    /\ tickAvg # 0 /\ tockAvg # 0 /\ uspb # 0

C18_IsTickTellsLastBeat ==
    [][ (lastOp' = "beat" /\ runMode \in {SETTLING, SCALING, CALIBRATING}) =>
          (isTick(Fields') <=> ~IsTockBeat(Fields)) ]_vars

\* The correction that the last beat, a tick measured under the bias in
\* force, added to its raw interval
CorrectionOfLastBeat == tickPeriod - RawOfLastBeat

\* The correction for bias b and the raw interval of the last beat
CorrectionFor(b) == Corrected(b, RawOfLastBeat) - RawOfLastBeat

C20_CalibratingAverages ==
    [][ (lastOp' = "beat" /\ runMode = CALIBRATING) =>
          LET sample == Corrected(bias, lastTime' - lastTime)
              n      == curSmoothing
          IN  /\ 1 <= n /\ n <= tgtSmoothing
              /\ IF IsTockBeat(Fields)
                 THEN /\ tockPeriod' = sample
                      /\ tockAvg' = tockAvg + CDiv(sample - tockAvg, n)
                      /\ tickAvg' = tickAvg
                      /\ curSmoothing' = n + 1
                 ELSE /\ tickPeriod' = sample
                      /\ tickAvg' = tickAvg + CDiv(sample - tickAvg, n)
                      /\ tockAvg' = tockAvg
                      /\ curSmoothing' = n
              /\ uspb' = IF tockAvg' = 0 THEN tickAvg'
                         ELSE CDiv(tickAvg' + tockAvg', 2)
              /\ ret' = uspb' ]_vars

C20_Witness ==
    /\ lastOp = "beat"
    /\ runMode = CALIBRATING
    /\ curSmoothing = 2
    /\ tick = FALSE
    /\ bias # 0
    /\ tockAvg # 0
    /\ tickAvg # tickPeriod
    /\ uspb = CDiv(tickAvg + tockAvg, 2)

\* C21: a beat dispatched in CALIBRATING that finds tickAvg = 0 and the flag
\* on tock is handled as a tick: it stores the corrected interval as
\* tickPeriod and folds it into tickAvg, it leaves tockAvg, tockPeriod and
\* curSmoothing alone and stays in CALIBRATING; and every tock sample of a
\* calibration run comes after a tick sample taken with the same
\* curSmoothing, no other sample in between.
C21_CalibrationStartsOnTick ==
    [][ (lastOp' = "beat" /\ runMode = CALIBRATING) =>
          /\ (tickAvg = 0 /\ ~tick) =>
                /\ tickPeriod' = Corrected(bias, lastTime' - lastTime)
                /\ tickAvg' = CDiv(tickPeriod', curSmoothing)
                /\ hist'.forced
                /\ UNCHANGED << tockAvg, tockPeriod, curSmoothing, runMode >>
          /\ (tockAvg' # tockAvg \/ tockPeriod' # tockPeriod \/ curSmoothing' # curSmoothing
              \/ runMode' # runMode) =>
                /\ hist.tickN = curSmoothing
                /\ hist.ticks # {}
                /\ ~hist'.forced ]_vars

\* a calibration run began on a tock: the beat was handled as a tick sample
C21_Witness ==
    /\ lastOp = "beat"
    /\ runMode = CALIBRATING
    /\ hist.forced
    /\ hist.tickN = 1
    /\ tickAvg = tickPeriod
    /\ tickAvg # 0
    /\ tockAvg = 0
    /\ curSmoothing = 1
    /\ ~tick

\* C22 (as stated): every beat() call but the first one ends with the tick
\* flag negated, timeBeforeLast equal to the previous lastTime and lastTime
\* equal to the stamp of this passage.
C22_TickAlwaysToggles ==
    [][ (lastOp' \in BeatOps /\ everBeat) =>
          /\ tick' = ~tick
          /\ timeBeforeLast' = lastTime
          /\ lastTime' = kick'.micros ]_vars

\* C22 (amended): every beat() call ends with lastTime equal to the stamp of
\* this passage.  A call that finds lastTime # 0 ends with timeBeforeLast
\* equal to the previous lastTime and with the tick flag negated, except
\* that a beat dispatched in CALIBRATING with tickAvg = 0 and the flag false
\* leaves the flag false (it is forced to true and then negated).  A call
\* that finds lastTime = 0 leaves the flag and timeBeforeLast alone.
C22_BeatEpilogue ==
    [][ lastOp' \in BeatOps =>
          /\ lastTime' = kick'.micros
          /\ lastTime # 0 =>
                /\ lastOp' = "beat"
                /\ timeBeforeLast' = lastTime
                /\ tick' = IF runMode = CALIBRATING /\ tickAvg = 0 /\ ~tick
                           THEN FALSE
                           ELSE ~tick
          /\ lastTime = 0 =>
                /\ lastOp' = "beatFirst"
                /\ UNCHANGED << tick, timeBeforeLast >> ]_vars

\* a beat found the flag false, forced it to true and left it false
C22_Witness ==
    /\ lastOp = "beat"
    /\ hist.forced
    /\ ~tick
    /\ timeBeforeLast # 0
    /\ lastTime = kick.micros
    /\ lastTime # timeBeforeLast

\* the kick pulse of beat(): kickPin to OUTPUT, wait delayTime, HIGH, hold
\* kickTime, LOW, back to INPUT
C23_KickPulse ==
    << "pinMode OUTPUT", "delay delayTime", "digitalWrite HIGH", "delay kickTime",
       "digitalWrite LOW", "pinMode INPUT" >>

\* C23: every beat() call, the first one included and whatever the mode,
\* reads the clock, then issues the kick pulse, once, and only then tests
\* lastTime and dispatches on the mode; when beat() returns kickPin is an
\* input and is not driven, and no other method touches kickPin.
C23_KickOncePerBeat ==
    [][ /\ kick'.mode = "INPUT"
        /\ kick'.level = "LOW"
        /\ lastOp' \notin (BeatOps \cup {"cycle"}) => kick' = kick
        /\ lastOp' \in BeatOps =>
              /\ Len(kick'.log) >= 8
              /\ kick'.log[1] = "micros"
              /\ SubSeq(kick'.log, 2, 7) = C23_KickPulse
              /\ kick'.log[8] = IF lastOp' = "beatFirst" THEN "return 0" ELSE "switch runMode"
              /\ \A i \in 8..Len(kick'.log) :
                    kick'.log[i] \notin {C23_KickPulse[j] : j \in 1..6} ]_vars

\* a beat() call in RUNNING has issued the kick pulse, and so has a first call
C23_Witness ==
    /\ lastOp = "beat"
    /\ runMode = RUNNING
    /\ kick.log[4] = "digitalWrite HIGH"
    /\ kick.log[8] = "switch runMode"
    /\ kick.mode = "INPUT"
    /\ ret = uspb

\* C24: incrBeatDuration never overflows: for every beat duration uspb > 0
\* and every incr, of either sign and of any magnitude, each product
\* step * uspb, with 432000 added, stays within a signed 32-bit long.
C24_IncrNeverOverflows == lastOp = "incrBeatDuration" => ~hist.oflow

\* an adjustment applied in several steps without overflow
C24_Witness ==
    /\ lastOp = "incrBeatDuration"
    /\ ~hist.oflow
    /\ uspb > 1005000
    /\ uspb < 1006000
    /\ tickAvg = uspb
    /\ tockAvg = uspb
    /\ ret = uspb

\* C25 (as stated): beat() returns whenever a real passage occurs: once the
\* sense pin has read above zero in the peak loop and reads zero again,
\* beat() returns.
C25_RawPeakReturns ==
    (sense.pc = "peak" /\ sense.rawPeak > 0 /\ sense.raw = 0) ~> (sense.pc = "idle")

\* C25 (amended): beat() has no timeout.  Until it returns it changes no
\* field and makes no call on the kick pin; it enters the peak loop only
\* after a reading of 0, and it returns only from the peak loop, when the
\* scaled reading (raw / peakScale) has dropped below the previous scaled
\* reading, which is then at least 1: some reading has reached peakScale.
\* Whenever a reading of the peak loop has reached peakScale and the pin
\* reads zero again, beat() returns.
C25_ScaledPeakReturns ==
    /\ [][ /\ sense'.pc # "idle" =>
                /\ Fields' = Fields
                /\ UNCHANGED << ret, lastOp, kick >>
           /\ (sense.pc = "idle" /\ sense'.pc # "idle") => sense'.pc = "zero"
           /\ (sense.pc = "zero" /\ sense'.pc = "peak") => sense'.raw = 0
           /\ (sense.pc # "idle" /\ sense'.pc = "idle") =>
                /\ sense.pc = "peak"
                /\ sense.currCoil < sense.pastCoil
                /\ sense.pastCoil >= 1
                /\ CDiv(sense.rawPeak, peakScale) >= sense.pastCoil
                /\ lastOp' \in BeatOps
           /\ (sense'.pc = "peak" /\ CDiv(sense'.rawPeak, peakScale') >= 1
               /\ sense'.raw = 0) => sense'.currCoil < sense'.pastCoil ]_vars
    /\ (sense.pc = "peak" /\ CDiv(sense.rawPeak, peakScale) >= 1 /\ sense.raw = 0)
          ~> (sense.pc = "idle")

\* beat() has returned for a passage whose highest reading, 25, was seen
\* under a peak scaling of 20 set by the sketch
C25_Witness ==
    /\ lastOp = "beat"
    /\ sense.pc = "idle"
    /\ sense.rawPeak = 25
    /\ peakScale >= 20
    /\ kick.micros = lastTime

\* C26: for all targets >= 1, between calls the counter of the
\* phase is inside its window: 1 <= cycleCounter <= tgtSettle in SETTLING,
\* 1 <= cycleCounter <= tgtScale in SCALING, 1 <= curSmoothing <=
\* tgtSmoothing in CALIBRATING.
C26_CountersInWindow ==
    /\ (runMode = SETTLING /\ tgtSettle >= 1) =>
          (1 <= cycleCounter /\ cycleCounter <= tgtSettle)
    /\ (runMode = SCALING /\ tgtScale >= 1) =>
          (1 <= cycleCounter /\ cycleCounter <= tgtScale)
    /\ (runMode = CALIBRATING /\ tgtSmoothing >= 1) =>
          (1 <= curSmoothing /\ curSmoothing <= tgtSmoothing)

\* the last tock of a calibration run of 32766 cycles is about to be taken:
\* the counter has reached its target
C26_Witness ==
    /\ runMode = CALIBRATING
    /\ tgtSmoothing = MaxInt - 1
    /\ curSmoothing = tgtSmoothing
    /\ pairsInMode = MaxInt - 2
    /\ ~tick
    /\ lastOp = "beat"

\* the least and the greatest of a non-empty set of samples
C27_Least(S) == CHOOSE x \in S : \A y \in S : x <= y

C27_Greatest(S) == CHOOSE x \in S : \A y \in S : x >= y

\* C27: during a calibration run and at its end, once a tick sample has
\* been taken tickAvg lies between the least and the greatest tick sample
\* of the run, and once a tock sample has been taken tockAvg lies between
\* the least and the greatest tock sample; if every sample of the run so
\* far equals c and a tock sample has been taken, then tickAvg = tockAvg =
\* beatDuration = c.
C27_AveragesWithinSamples ==
    runMode \in {CALIBRATING, CALFINISH} =>
        /\ hist.ticks # {} =>
              /\ C27_Least(hist.ticks) <= tickAvg
              /\ tickAvg <= C27_Greatest(hist.ticks)
        /\ hist.tocks # {} =>
              /\ C27_Least(hist.tocks) <= tockAvg
              /\ tockAvg <= C27_Greatest(hist.tocks)
        /\ \A c \in hist.tocks :
              hist.ticks \cup hist.tocks = {c} =>
                  (tickAvg = c /\ tockAvg = c /\ uspb = c)

\* a calibration run of two cycles has ended, its four samples differ and
\* the averages lie strictly between them
C27_Witness ==
    /\ runMode = CALFINISH
    /\ lastOp = "beat"
    /\ Cardinality(hist.ticks) = 2
    /\ Cardinality(hist.tocks) = 2
    /\ C27_Least(hist.ticks) < tickAvg
    /\ tickAvg < C27_Greatest(hist.ticks)
    /\ C27_Least(hist.tocks) < tockAvg
    /\ tockAvg < C27_Greatest(hist.tocks)

\* C28: only the first beat() call after construction takes the first-call
\* path: every later call, whatever the stamps, is dispatched on the mode
\* and returns beatDuration instead of setting the baseline and returning 0.
C28_BaselineOnlyOnce ==
    [][ (lastOp' \in BeatOps /\ everBeat) =>
          /\ lastOp' = "beat"
          /\ ret' = uspb'
          /\ timeBeforeLast' = lastTime ]_vars

\* a later call whose stamp is smaller than the one before (the clock has
\* wrapped) is dispatched and returns beatDuration
C28_Witness ==
    /\ lastOp = "beat"
    /\ everBeat
    /\ lastTime # 0
    /\ lastTime < timeBeforeLast
    /\ ret = uspb
    /\ runMode = RUNNING

====
